---- MODULE Spec2Model ----
(***************************************************************************)
(* velox.db: a document store kept in one JSON file, with an optional      *)
(* in-memory cache that a timer flushes to the file.                       *)
(*                                                                         *)
(*   BaseClient (src/src/core/BaseClient.ts): constructor, read, write     *)
(*   Client, versioned (src/unnamed/part_000): processQuery, create,       *)
(*     insert, find, findFirst, delete, deleteFirst, update, drop, size,   *)
(*     count, clear                                                        *)
(*                                                                         *)
(* The earlier Client (src/src/core/Client.ts) shares BaseClient; the      *)
(* properties below are about the versioned one, which is the one modelled.*)
(* A failing writeFileSync is modelled where it is not reported to a       *)
(* caller, in the flush timer.                                             *)
(*                                                                         *)
(* A document is a function from table names to sequences of records; a    *)
(* record is a function from field names to values.  Values are numbers;   *)
(* the n-th identifier that uuidv6() hands out is the number n (version 6  *)
(* UUIDs sort by creation time).  The file is represented by the document  *)
(* its text parses to.                                                     *)
(***************************************************************************)
EXTENDS Integers, Sequences, FiniteSets, TLC

VARIABLES
    disk,      \* the file at options.path: [exists, doc]
    cache,     \* BaseClient.cache, the Map of table name -> records
    cacheOn,   \* options.cache is set
    alive,     \* the Node process holding the client is running
    nextId,    \* how many identifiers uuidv6() has handed out, plus one
    last,      \* the last call: its name, arguments, error and return value
    peer       \* a second client with cache on the same file: [open, cache]

vars == <<disk, cache, cacheOn, alive, nextId, last, peer>>

(***************************************************************************)
(* Bounds of the model.                                                    *)
(***************************************************************************)
\* Spec: identifiers uuidv6() may hand out in one behaviour
MaxIds == 2
\* Spec: records a document may hold, all tables together
MaxRecords == 2
\* SpecRec: identifiers uuidv6() may hand out in one behaviour
RecMaxIds == 3
\* SpecRec: records a document may hold, all tables together
RecMaxRecords == 3
\* SpecRec: records one insert call may pass
MaxBatch == 2
\* SpecQuery: records of the table that is queried
MaxRows == 3
\* SpecRaise: records the table holds when the client is constructed
MaxStored == 2

(***************************************************************************)
(* Values, records, documents.                                             *)
(***************************************************************************)
\* JavaScript's undefined: what item[key] yields for a key the record lacks
Undef == -1

\* the error messages the code throws
ReadError == "Unable to read the file."
WriteError == "Unable to write the file."
TableNotFound == "Table not found"
TypeError == "TypeError"
\* what a predicate throws when it reads a member of undefined
PredicateError == "Cannot read properties of undefined"
NoError == ""

\* item[key]
Get(item, key) == IF key \in DOMAIN item THEN item[key] ELSE Undef

\* {} : the document without tables
EmptyDoc == [t \in {} |-> <<>>]

\* no second client has been constructed
NoPeer == [open |-> FALSE, cache |-> EmptyDoc]

\* The document is a plain object, so it inherits the members of
\* Object.prototype ("constructor", "toString", ...); the model holds one.
\* json["constructor"] is the function Object until a table of that name is
\* stored: its length is 1, it is not iterable and has no array methods.
Inherited == {"constructor"}

\* table in json: the `in` operator also finds inherited members
In(table, json) == table \in DOMAIN json \/ table \in Inherited

\* json[table] = rows
SetTable(json, table, rows) ==
    [t \in DOMAIN json \cup {table} |-> IF t = table THEN rows ELSE json[t]]

\* a removal that keeps the key and empties the records
EmptyTable(json, table) == SetTable(json, table, <<>>)

\* delete json[table]
DelTable(json, table) == [t \in DOMAIN json \ {table} |-> json[t]]

\* JSON.stringify drops the members of an object whose value is undefined
StringifyRecord(item) == [k \in {f \in DOMAIN item : item[f] # Undef} |-> item[k]]

RECURSIVE StringifyRows(_)
StringifyRows(rows) ==
    IF rows = <<>> THEN <<>>
    ELSE <<StringifyRecord(Head(rows))>> \o StringifyRows(Tail(rows))

\* JSON.parse(JSON.stringify(data, null, 4)): the document the written text holds
Stringify(data) == [t \in DOMAIN data |-> StringifyRows(data[t])]

(***************************************************************************)
(* BaseClient.read and BaseClient.write.                                   *)
(***************************************************************************)
\* a read that takes a missing file for an empty document
ReadNeverThrows == FALSE

\* read() throws: no cache, and readFileSync or JSON.parse throws
ReadThrows == ~cacheOn /\ ~disk.exists

\* a read that parses the file whether caching is on or not
ReadFile == disk.doc

\* read(): the cached tables when caching is on, else the parsed file
Read == IF cacheOn THEN cache ELSE disk.doc

\* a write to the file that is put off
WriteNothing(data) == UNCHANGED disk

\* writeFileSync(path, JSON.stringify(data, null, 4))
WriteFile(data) == disk' = [exists |-> TRUE, doc |-> Stringify(data)]

\* write(data, updateCache)
write(data, updateCache) ==
    IF cacheOn /\ updateCache
    THEN cache' = data /\ UNCHANGED disk
    ELSE WriteFile(data) /\ UNCHANGED cache

\* a write that also writes the file while caching is on
WriteThrough(data) ==
    IF cacheOn
    THEN cache' = data /\ WriteFile(data)
    ELSE WriteFile(data) /\ UNCHANGED cache

\* write(data): updateCache defaults to true
Write(data) == write(data, TRUE)

\* the call threw before it wrote anything
Throw(op, table, arg, err) ==
    /\ last' = [op |-> op, table |-> table, arg |-> arg, err |-> err, ret |-> <<>>]
    /\ UNCHANGED <<disk, cache, cacheOn, alive, nextId, peer>>

\* the call returned
Return(op, table, arg, ret) ==
    last' = [op |-> op, table |-> table, arg |-> arg, err |-> NoError, ret |-> ret]

(***************************************************************************)
(* Table lifecycle: create, drop, clear.                                   *)
(***************************************************************************)
RECURSIVE CreateAll(_, _)
CreateAll(json, tables) ==
    IF tables = <<>> THEN json
    ELSE IF In(Head(tables), json)
         THEN CreateAll(json, Tail(tables))
         ELSE CreateAll(SetTable(json, Head(tables), <<>>), Tail(tables))

create(tables) ==
    /\ alive
    /\ IF ReadThrows
       THEN Throw("create", "", tables, ReadError)
       ELSE /\ Write(CreateAll(Read, tables))
            /\ Return("create", "", tables, <<>>)
            /\ UNCHANGED <<cacheOn, alive, nextId, peer>>

RECURSIVE DropAll(_, _)
DropAll(json, tables) ==
    IF tables = <<>> THEN json
    ELSE IF In(Head(tables), json)
         THEN DropAll(DelTable(json, Head(tables)), Tail(tables))
         ELSE DropAll(json, Tail(tables))

drop(tables) ==
    /\ alive
    /\ IF ReadThrows
       THEN Throw("drop", "", tables, ReadError)
       ELSE LET json == DropAll(Read, tables)
            IN  /\ Write(json)
                /\ Return("drop", "", tables, json)
                /\ UNCHANGED <<cacheOn, alive, nextId, peer>>

RECURSIVE ClearAll(_, _)
ClearAll(json, tables) ==
    IF tables = <<>> THEN json
    ELSE IF ~In(Head(tables), json)
         THEN ClearAll(json, Tail(tables))
         ELSE ClearAll(SetTable(json, Head(tables), <<>>), Tail(tables))

clear(tables) ==
    /\ alive
    /\ IF ReadThrows
       THEN Throw("clear", "", tables, ReadError)
       ELSE /\ Write(ClearAll(Read, tables))
            /\ Return("clear", "", tables, <<>>)
            /\ UNCHANGED <<cacheOn, alive, nextId, peer>>

(***************************************************************************)
(* Predicate matching.  A `where` is a function from field names to        *)
(* entries [fn, test, arg]: fn says whether the entry is a function;       *)
(* test "eq" is (v) => v === arg, test "ge" is (v) => v >= arg, and test   *)
(* "inc" is (v) => v.includes(arg), which throws when the record lacks the *)
(* field; a value that is there includes arg when it is arg.               *)
(***************************************************************************)
\* condition(item[key]) throws
CallRaises(condition, value) == condition.test = "inc" /\ value = Undef

\* condition(item[key])
Call(condition, value) ==
    IF condition.test = "eq" THEN value = condition.arg
    ELSE IF condition.test = "inc" THEN value = condition.arg
    ELSE value # Undef /\ value >= condition.arg

\* Object.entries(where).every(...) throws on item: an entry throws and no
\* entry before it has returned false (a `where` lists such an entry last)
Raises(where, item) ==
    /\ \E key \in DOMAIN where :
           where[key].fn /\ CallRaises(where[key], Get(item, key))
    /\ \A key \in DOMAIN where :
           (where[key].fn /\ ~CallRaises(where[key], Get(item, key)))
              => Call(where[key], Get(item, key))

\* the place of the first record on which the predicates throw, counted
\* from 1; 0 when they throw on none
RaisesAt(columns, where) ==
    IF \E i \in 1..Len(columns) : Raises(where, columns[i])
    THEN CHOOSE i \in 1..Len(columns) :
            /\ Raises(where, columns[i])
            /\ \A j \in 1..(i - 1) : ~Raises(where, columns[j])
    ELSE 0

\* columns.findIndex(...) throws: the predicates throw on a record that
\* stands before every match
FindIndexRaises(columns, where) ==
    /\ RaisesAt(columns, where) # 0
    /\ \A j \in 1..(RaisesAt(columns, where) - 1) :
           \E key \in DOMAIN where :
               where[key].fn /\ ~Call(where[key], Get(columns[j], key))

\* a rule under which an entry that is not a function fails
MatchesStrict(where, item) ==
    \A key \in DOMAIN where : where[key].fn /\ Call(where[key], Get(item, key))

\* Object.entries(where).every(([key, condition]) => ...)
Matches(where, item) ==
    \A key \in DOMAIN where :
        IF where[key].fn THEN Call(where[key], Get(item, key)) ELSE TRUE

\* columns.filter(item => Matches(where, item))
RECURSIVE Filter(_, _)
Filter(columns, where) ==
    IF columns = <<>> THEN <<>>
    ELSE IF Matches(where, Head(columns))
         THEN <<Head(columns)>> \o Filter(Tail(columns), where)
         ELSE Filter(Tail(columns), where)

\* a filter that keeps no record
KeepNone(columns, where) == <<>>

\* columns.filter(item => !Matches(where, item))
RECURSIVE FilterNot(_, _)
FilterNot(columns, where) ==
    IF columns = <<>> THEN <<>>
    ELSE IF ~Matches(where, Head(columns))
         THEN <<Head(columns)>> \o FilterNot(Tail(columns), where)
         ELSE FilterNot(Tail(columns), where)

\* columns.findIndex(item => Matches(where, item)), counted from 1; 0 for -1
FindIndex(columns, where) ==
    IF \E i \in 1..Len(columns) : Matches(where, columns[i])
    THEN CHOOSE i \in 1..Len(columns) :
            /\ Matches(where, columns[i])
            /\ \A j \in 1..(i - 1) : ~Matches(where, columns[j])
    ELSE 0

(***************************************************************************)
(* processQuery: sort, skip, limit, projection.  The options are a         *)
(* function from the option names that are given to their values; sort is  *)
(* the sequence of <<field, direction>> in the order the object lists them.*)
(***************************************************************************)
\* a > b and a < b on numbers; any comparison with undefined is false
Greater(a, b) == a # Undef /\ b # Undef /\ a > b
Less(a, b) == a # Undef /\ b # Undef /\ a < b

\* the comparator handed to Array.prototype.sort
RECURSIVE Compare(_, _, _)
Compare(a, b, sort) ==
    IF sort = <<>> THEN 0
    ELSE LET key == Head(sort)[1]
             dir == Head(sort)[2]
         IN  IF Greater(Get(a, key), Get(b, key)) THEN (IF dir = 1 THEN 1 ELSE -1)
             ELSE IF Less(Get(a, key), Get(b, key)) THEN (IF dir = 1 THEN -1 ELSE 1)
             ELSE Compare(a, b, Tail(sort))

\* ECMAScript's "consistent comparator" over the elements being sorted
Consistent(data, sort) ==
    LET S == {data[i] : i \in 1..Len(data)}
        c(x, y) == Compare(x, y, sort)
    IN  \A x, y, z \in S :
            /\ (c(x, y) = 0 /\ c(y, z) = 0) => c(x, z) = 0
            /\ (c(x, y) < 0 /\ c(y, z) < 0) => c(x, z) < 0
            /\ (c(x, y) > 0 /\ c(y, z) > 0) => c(x, z) > 0
            /\ (c(x, y) = 0) => (c(x, z) = c(y, z))

\* x put into a sorted sequence behind every element that does not sort after it
RECURSIVE InsertSorted(_, _, _)
InsertSorted(x, sorted, sort) ==
    IF sorted = <<>> THEN <<x>>
    ELSE IF Compare(Head(sorted), x, sort) > 0
         THEN <<x>> \o sorted
         ELSE <<Head(sorted)>> \o InsertSorted(x, Tail(sorted), sort)

\* the stable sort of data (Array.prototype.sort is stable)
RECURSIVE StableSort(_, _)
StableSort(data, sort) ==
    IF data = <<>> THEN <<>>
    ELSE InsertSorted(data[Len(data)],
                      StableSort(SubSeq(data, 1, Len(data) - 1), sort), sort)

\* every order of the elements of data
RECURSIVE Orderings(_)
Orderings(data) ==
    IF data = <<>> THEN {<<>>}
    ELSE UNION {{<<data[i]>> \o p :
                    p \in Orderings(SubSeq(data, 1, i - 1)
                                        \o SubSeq(data, i + 1, Len(data)))} :
                i \in 1..Len(data)}

\* result.sort(comparator): the stable order under a consistent comparator;
\* under an inconsistent one the order is implementation-defined
SortStage(data, options) ==
    IF "sort" \notin DOMAIN options THEN {data}
    ELSE IF Consistent(data, options.sort) THEN {StableSort(data, options.sort)}
    ELSE Orderings(data)

\* Array.prototype.slice(start, end) with its relative (negative) indices
Slice(arr, start, end) ==
    LET len == Len(arr)
        k == IF start < 0 THEN (IF len + start < 0 THEN 0 ELSE len + start)
             ELSE (IF start > len THEN len ELSE start)
        final == IF end < 0 THEN (IF len + end < 0 THEN 0 ELSE len + end)
                 ELSE (IF end > len THEN len ELSE end)
    IN  SubSeq(arr, k + 1, final)

\* if (options.skip) result = result.slice(options.skip)
SkipStage(result, options) ==
    IF "skip" \in DOMAIN options /\ options.skip # 0
    THEN Slice(result, options.skip, Len(result))
    ELSE result

\* if (options.limit) result = result.slice(0, options.limit)
LimitStage(result, options) ==
    IF "limit" \in DOMAIN options /\ options.limit # 0
    THEN Slice(result, 0, options.limit)
    ELSE result

\* a projection that hands the record out as it is
KeepItem(item, projection) == item

\* projectedItem[key] = item[key] for each key of options.projection
ProjectItem(item, projection) ==
    [key \in {projection[i] : i \in 1..Len(projection)} |-> Get(item, key)]

RECURSIVE MapProject(_, _)
MapProject(result, projection) ==
    IF result = <<>> THEN <<>>
    ELSE <<ProjectItem(Head(result), projection)>>
            \o MapProject(Tail(result), projection)

\* if (options.projection) result = result.map(...)
ProjectStage(result, options) ==
    IF "projection" \in DOMAIN options
    THEN MapProject(result, options.projection)
    ELSE result

\* processQuery(data, options): the results the call may return
processQuery(data, options) ==
    {ProjectStage(LimitStage(SkipStage(sorted, options), options), options) :
        sorted \in SortStage(data, options)}

(***************************************************************************)
(* Record operations of the versioned Client.  An optional argument is a   *)
(* sequence of length 0 (not given) or 1 (given).                          *)
(***************************************************************************)
\* { "_id": uuidv6(), ...each }: the spread comes after the fresh identifier
WithId(each, id) ==
    [k \in {"_id"} \cup DOMAIN each |-> IF k \in DOMAIN each THEN each[k] ELSE id]

\* a loop that takes the input records last to first
FinalBackwards(data, id) ==
    [i \in 1..Len(data) |-> WithId(data[Len(data) + 1 - i], id + i - 1)]

\* the loop of insert: one uuidv6() call per input record, in call order
RECURSIVE Final(_, _)
Final(data, id) ==
    IF data = <<>> THEN <<>>
    ELSE <<WithId(Head(data), id)>> \o Final(Tail(data), id + 1)

insert(table, data) ==
    LET arg == [data |-> data, from |-> nextId]
    IN  /\ alive
        /\ IF ReadThrows THEN Throw("insert", table, arg, ReadError)
           ELSE IF ~In(table, Read) THEN Throw("insert", table, arg, TableNotFound)
           ELSE IF table \notin DOMAIN Read
                \* [...columns, ...final] after the loop has drawn the identifiers
                THEN /\ last' = [op |-> "insert", table |-> table, arg |-> arg,
                                 err |-> TypeError, ret |-> <<>>]
                     /\ nextId' = nextId + Len(data)
                     /\ UNCHANGED <<disk, cache, cacheOn, alive, peer>>
           ELSE LET json == SetTable(Read, table, Read[table] \o Final(data, nextId))
                IN  /\ Write(json)
                    /\ Return("insert", table, arg, json[table])
                    /\ nextId' = nextId + Len(data)
                    /\ UNCHANGED <<cacheOn, alive, peer>>

\* A call on an inherited name passes the `in` test; columns is then a function
\* and columns.filter, .findIndex, .forEach or the spread throws a TypeError.

\* what find may return once the table is known to exist
FindResults(json, table, where, query) ==
    IF json[table] = <<>> THEN {<<>>}
    ELSE IF query # <<>>
         THEN processQuery(Filter(json[table], where), query[1])
         ELSE {Filter(json[table], where)}

find(table, where, query) ==
    LET arg == [where |-> where, query |-> query]
    IN  /\ alive
        /\ IF ReadThrows THEN Throw("find", table, arg, ReadError)
           ELSE IF ~In(table, Read) THEN Throw("find", table, arg, TableNotFound)
           ELSE IF table \notin DOMAIN Read THEN Throw("find", table, arg, TypeError)
           ELSE IF RaisesAt(Read[table], where) # 0
                THEN Throw("find", table, arg, PredicateError)
           ELSE /\ \E found \in FindResults(Read, table, where, query) :
                       Return("find", table, arg, found)
                /\ UNCHANGED <<disk, cache, cacheOn, alive, nextId, peer>>

\* null is the empty sequence, a record found is the sequence holding it
findFirst(table, where, query) ==
    LET arg == [where |-> where, query |-> query]
    IN  /\ alive
        /\ IF ReadThrows THEN Throw("findFirst", table, arg, ReadError)
           ELSE IF ~In(table, Read) THEN Throw("findFirst", table, arg, TableNotFound)
           ELSE IF table \notin DOMAIN Read THEN Throw("findFirst", table, arg, TypeError)
           ELSE IF RaisesAt(Read[table], where) # 0
                THEN Throw("findFirst", table, arg, PredicateError)
           ELSE /\ \E found \in FindResults(Read, table, where, query) :
                       Return("findFirst", table, arg,
                              IF Len(found) = 0 THEN <<>> ELSE <<found[1]>>)
                /\ UNCHANGED <<disk, cache, cacheOn, alive, nextId, peer>>

\* a count of the matching records, taken before the pipeline runs
countMatches(table, where, query) ==
    /\ alive /\ ~ReadThrows /\ table \in DOMAIN Read
    /\ Return("count", table, [where |-> where, query |-> query],
              Len(Filter(Read[table], where)))
    /\ UNCHANGED <<disk, cache, cacheOn, alive, nextId, peer>>

count(table, where, query) ==
    LET arg == [where |-> where, query |-> query]
    IN  /\ alive
        /\ IF ReadThrows THEN Throw("count", table, arg, ReadError)
           ELSE IF ~In(table, Read) THEN Throw("count", table, arg, TableNotFound)
           ELSE IF table \notin DOMAIN Read THEN Throw("count", table, arg, TypeError)
           ELSE IF RaisesAt(Read[table], where) # 0
                THEN Throw("count", table, arg, PredicateError)
           ELSE /\ \E found \in FindResults(Read, table, where, query) :
                       Return("count", table, arg, Len(found))
                /\ UNCHANGED <<disk, cache, cacheOn, alive, nextId, peer>>

delete(table, where) ==
    /\ alive
    /\ IF ReadThrows THEN Throw("delete", table, where, ReadError)
       ELSE IF ~In(table, Read) THEN Throw("delete", table, where, TableNotFound)
       ELSE IF table \notin DOMAIN Read THEN Throw("delete", table, where, TypeError)
       ELSE IF RaisesAt(Read[table], where) # 0
            THEN Throw("delete", table, where, PredicateError)
       ELSE LET columns == Read[table]
                newColumns == FilterNot(columns, where)
            IN  /\ Write(SetTable(Read, table, newColumns))
                /\ Return("delete", table, where, Len(columns) - Len(newColumns))
                /\ UNCHANGED <<cacheOn, alive, nextId, peer>>

\* columns.splice(index): the record at index and every record behind it go
SpliceRest(columns, index) == SubSeq(columns, 1, index - 1)

\* columns.splice(index, 1)
Splice(columns, index) ==
    SubSeq(columns, 1, index - 1) \o SubSeq(columns, index + 1, Len(columns))

deleteFirst(table, where) ==
    /\ alive
    /\ IF ReadThrows THEN Throw("deleteFirst", table, where, ReadError)
       ELSE IF ~In(table, Read) THEN Throw("deleteFirst", table, where, TableNotFound)
       ELSE IF table \notin DOMAIN Read THEN Throw("deleteFirst", table, where, TypeError)
       ELSE IF FindIndexRaises(Read[table], where)
            THEN Throw("deleteFirst", table, where, PredicateError)
       ELSE LET columns == Read[table]
                index == FindIndex(columns, where)
            IN  IF index # 0
                THEN /\ Write(SetTable(Read, table, Splice(columns, index)))
                     /\ Return("deleteFirst", table, where, 1)
                     /\ UNCHANGED <<cacheOn, alive, nextId, peer>>
                ELSE /\ Return("deleteFirst", table, where, 0)
                     /\ UNCHANGED <<disk, cache, cacheOn, alive, nextId, peer>>

\* an update that puts the partial record in the place of the record
Replace(item, updates) == updates

\* Object.entries(updates).forEach(([key, value]) => { item[key] = value })
Assign(item, updates) ==
    [k \in DOMAIN item \cup DOMAIN updates |->
        IF k \in DOMAIN updates THEN updates[k] ELSE item[k]]

\* columns.forEach(item => { if (match) ... })
RECURSIVE UpdateEach(_, _, _)
UpdateEach(columns, where, updates) ==
    IF columns = <<>> THEN <<>>
    ELSE <<IF Matches(where, Head(columns))
           THEN Assign(Head(columns), updates)
           ELSE Head(columns)>> \o UpdateEach(Tail(columns), where, updates)

\* the records after forEach has thrown: the ones before the record that
\* throws have been assigned to, the others have not been visited
UpdatedUpTo(columns, where, updates) ==
    LET k == RaisesAt(columns, where)
    IN  UpdateEach(SubSeq(columns, 1, k - 1), where, updates)
            \o SubSeq(columns, k, Len(columns))

update(table, where, updates) ==
    LET arg == [where |-> where, updates |-> updates]
    IN  /\ alive
        /\ IF ReadThrows THEN Throw("update", table, arg, ReadError)
           ELSE IF ~In(table, Read) THEN Throw("update", table, arg, TableNotFound)
           ELSE IF table \notin DOMAIN Read THEN Throw("update", table, arg, TypeError)
           ELSE IF RaisesAt(Read[table], where) # 0
                \* forEach has assigned to the records before the one that
                \* throws; with caching on they are the objects the cache holds
                THEN /\ last' = [op |-> "update", table |-> table, arg |-> arg,
                                 err |-> PredicateError, ret |-> <<>>]
                     /\ IF cacheOn
                        THEN cache' = SetTable(cache, table,
                                         UpdatedUpTo(cache[table], where, updates))
                        ELSE UNCHANGED cache
                     /\ UNCHANGED <<disk, cacheOn, alive, nextId, peer>>
           ELSE LET columns == UpdateEach(Read[table], where, updates)
                IN  /\ Write(SetTable(Read, table, columns))
                    /\ Return("update", table, arg, columns)
                    /\ UNCHANGED <<cacheOn, alive, nextId, peer>>

\* `!table` holds when no table is given and when the name is the empty string
size(table) ==
    /\ alive
    /\ IF ReadThrows THEN Throw("size", "", table, ReadError)
       ELSE IF table = <<>> \/ table[1] = ""
            THEN Return("size", "", table, Cardinality(DOMAIN Read))
       ELSE IF ~In(table[1], Read) THEN Throw("size", "", table, TableNotFound)
       \* columns is the inherited function: columns.length is its arity
       ELSE IF table[1] \notin DOMAIN Read THEN Return("size", "", table, 1)
       ELSE Return("size", "", table, Len(Read[table[1]]))
    /\ UNCHANGED <<disk, cache, cacheOn, alive, nextId, peer>>

(***************************************************************************)
(* The flush timer and the process.                                        *)
(***************************************************************************)
\* the setInterval callback, writeFileSync succeeding
flush ==
    /\ alive /\ cacheOn
    /\ IF DOMAIN cache = {}
       THEN Return("flush", "", <<>>, FALSE) /\ UNCHANGED <<disk, cache>>
       ELSE Return("flush", "", <<>>, TRUE) /\ write(cache, FALSE)
    /\ UNCHANGED <<cacheOn, alive, nextId, peer>>

\* the setInterval callback, writeFileSync throwing (the file cannot be opened
\* for writing): write rethrows and nothing in the callback catches the error.
\* The library installs no uncaughtException listener, so Node ends the process
\* unless the host application has installed one of its own
flushThrows ==
    /\ alive /\ cacheOn
    /\ DOMAIN cache # {}
    /\ alive' \in BOOLEAN
    /\ last' = [op |-> "flush", table |-> "", arg |-> <<>>, err |-> WriteError,
                ret |-> <<>>]
    /\ UNCHANGED <<disk, cache, cacheOn, nextId, peer>>

\* new Client(options) in a fresh process, after the old one ended or was
\* killed: with caching the constructor reads the file into the cache
restart ==
    /\ IF cacheOn /\ ~disk.exists
       THEN /\ alive' = FALSE
            /\ cache' = EmptyDoc
            /\ last' = [op |-> "constructor", table |-> "", arg |-> <<>>,
                        err |-> ReadError, ret |-> <<>>]
       ELSE /\ alive' = TRUE
            /\ cache' = IF cacheOn THEN disk.doc ELSE EmptyDoc
            /\ Return("constructor", "", <<>>, <<>>)
    /\ UNCHANGED <<disk, cacheOn, nextId, peer>>

(***************************************************************************)
(* A second client, constructed with `cache` on the same path, in the same *)
(* process or in another one.  It runs the same code on its own cache Map; *)
(* the model lets it insert and flush.                                     *)
(***************************************************************************)
\* the call of the second client threw before it wrote anything
PeerThrow(op, table, arg, err) ==
    /\ last' = [op |-> op, table |-> table, arg |-> arg, err |-> err, ret |-> <<>>]
    /\ UNCHANGED <<disk, cache, cacheOn, alive, nextId, peer>>

\* new Client(options): the constructor reads the file into the cache Map
peerOpen ==
    /\ ~peer.open
    /\ IF disk.exists
       THEN /\ peer' = [open |-> TRUE, cache |-> disk.doc]
            /\ Return("peerConstructor", "", <<>>, <<>>)
            /\ UNCHANGED <<disk, cache, cacheOn, alive, nextId>>
       ELSE PeerThrow("peerConstructor", "", <<>>, ReadError)

\* insert(table, ...data) on the second client
peerInsert(table, data) ==
    LET arg == [data |-> data, from |-> nextId]
    IN  /\ peer.open
        /\ IF ~In(table, peer.cache) THEN PeerThrow("peerInsert", table, arg, TableNotFound)
           ELSE IF table \notin DOMAIN peer.cache
                THEN /\ last' = [op |-> "peerInsert", table |-> table, arg |-> arg,
                                 err |-> TypeError, ret |-> <<>>]
                     /\ nextId' = nextId + Len(data)
                     /\ UNCHANGED <<disk, cache, cacheOn, alive, peer>>
           ELSE LET json == SetTable(peer.cache, table,
                                     peer.cache[table] \o Final(data, nextId))
                IN  /\ peer' = [peer EXCEPT !.cache = json]
                    /\ Return("peerInsert", table, arg, json[table])
                    /\ nextId' = nextId + Len(data)
                    /\ UNCHANGED <<disk, cache, cacheOn, alive>>

\* a tick that reconciles: the file's tables, each followed by the records
\* of the second client's cache that the file does not hold
PeerMerged ==
    [t \in DOMAIN disk.doc \cup DOMAIN peer.cache |->
        IF t \notin DOMAIN disk.doc THEN peer.cache[t]
        ELSE IF t \notin DOMAIN peer.cache THEN disk.doc[t]
        ELSE disk.doc[t] \o
             SelectSeq(peer.cache[t],
                       LAMBDA r : \A i \in 1..Len(disk.doc[t]) : disk.doc[t][i] # r)]

\* the document the tick of the second client hands to write(obj, false)
PeerSnapshot == peer.cache

\* the setInterval callback of the second client; `arg` keeps the document the
\* file held when the tick ran
peerFlush ==
    /\ peer.open
    /\ IF DOMAIN peer.cache = {}
       THEN Return("peerFlush", "", disk.doc, FALSE) /\ UNCHANGED disk
       ELSE Return("peerFlush", "", disk.doc, TRUE) /\ WriteFile(PeerSnapshot)
    /\ UNCHANGED <<cache, cacheOn, alive, nextId, peer>>

(***************************************************************************)
(* The inputs of the calls, and the specifications.                        *)
(***************************************************************************)
\* the records of a document, all tables together
RECURSIVE CountRecords(_, _)
CountRecords(json, names) ==
    IF names = {} THEN 0
    ELSE LET t == CHOOSE x \in names : TRUE
         IN  Len(json[t]) + CountRecords(json, names \ {t})

\* the model lets insert run while the identifiers and the records stay in bounds
InBounds(data, maxIds, maxRecords) ==
    /\ nextId + Len(data) - 1 <= maxIds
    /\ (~ReadThrows) => CountRecords(Read, DOMAIN Read) + Len(data) <= maxRecords

Eq(n) == [fn |-> TRUE, test |-> "eq", arg |-> n]
Ge(n) == [fn |-> TRUE, test |-> "ge", arg |-> n]
Inc(n) == [fn |-> TRUE, test |-> "inc", arg |-> n]
NotCallable == [fn |-> FALSE, test |-> "eq", arg |-> 0]
NoWhere == [k \in {} |-> Eq(0)]

Names == {"t", "u"}
\* the names Spec calls with: two ordinary ones and the inherited one
AllNames == Names \cup Inherited
TableLists == {<<t>> : t \in AllNames} \cup {<<"t", "u">>}
OptionalNames == {<<>>, <<"">>} \cup {<<t>> : t \in AllNames}

\* the file when the first client is constructed
StoreFiles ==
    { [exists |-> FALSE, doc |-> EmptyDoc],
      [exists |-> TRUE, doc |-> EmptyDoc],
      [exists |-> TRUE, doc |-> [t \in {"t"} |-> <<>>]] }
StoreBatches == { <<[a |-> 1]>> }
StoreWheres == { NoWhere, [a |-> Eq(1)] }
StoreUpdates == { [a |-> 2] }

Init ==
    /\ cacheOn \in BOOLEAN
    /\ disk \in StoreFiles
    /\ alive = ~(cacheOn /\ ~disk.exists)
    /\ cache = IF cacheOn /\ disk.exists THEN disk.doc ELSE EmptyDoc
    /\ nextId = 1
    /\ peer = NoPeer
    /\ last = [op |-> "constructor", table |-> "", arg |-> <<>>,
               err |-> IF cacheOn /\ ~disk.exists THEN ReadError ELSE NoError,
               ret |-> <<>>]

Next ==
    \/ \E tables \in TableLists : create(tables)
    \/ \E tables \in TableLists : drop(tables)
    \/ \E tables \in TableLists : clear(tables)
    \/ \E table \in Names, data \in StoreBatches :
          InBounds(data, MaxIds, MaxRecords) /\ insert(table, data)
    \/ \E table \in AllNames, where \in StoreWheres : find(table, where, <<>>)
    \/ \E table \in Names, where \in StoreWheres : findFirst(table, where, <<>>)
    \/ \E table \in Names, where \in StoreWheres : count(table, where, <<>>)
    \/ \E table \in Names, where \in StoreWheres : delete(table, where)
    \/ \E table \in Names, where \in StoreWheres : deleteFirst(table, where)
    \/ \E table \in Names, where \in StoreWheres, updates \in StoreUpdates :
          update(table, where, updates)
    \/ \E table \in OptionalNames : size(table)
    \/ flush
    \/ flushThrows
    \/ restart

Spec == Init /\ [][Next]_vars

(***************************************************************************)
(* SpecRec: the record operations, with inputs that carry `_id`, undefined *)
(* values and entries that are not functions, between two ticks of the     *)
(* flush timer.                                                            *)
(***************************************************************************)
\* an `_id` a caller may pass: a string uuidv6() never returns
CallerIds == {0}

RecInputs == {[a |-> 1], [a |-> 2]} \cup {[_id |-> id, a |-> 1] : id \in CallerIds}

RECURSIVE SeqsUpTo(_, _)
SeqsUpTo(S, n) ==
    IF n = 0 THEN {<<>>}
    ELSE LET shorter == SeqsUpTo(S, n - 1)
         IN  shorter \cup {<<x>> \o s : x \in S, s \in {q \in shorter : Len(q) = n - 1}}

RecBatches == SeqsUpTo(RecInputs, MaxBatch)
RecWheres == { NoWhere, [a |-> Eq(1)], [a |-> Ge(2)], [a |-> NotCallable],
               [_id |-> Eq(1), a |-> Eq(1)] }
RecUpdates == {[a |-> 2], [a |-> Undef]} \cup {[_id |-> id] : id \in CallerIds}
RecFiles == { [exists |-> TRUE, doc |-> [t \in {"t"} |-> <<>>]] }

InitRec ==
    /\ cacheOn \in BOOLEAN
    /\ disk \in RecFiles
    /\ alive = TRUE
    /\ cache = IF cacheOn THEN disk.doc ELSE EmptyDoc
    /\ nextId = 1
    /\ peer = NoPeer
    /\ last = [op |-> "constructor", table |-> "", arg |-> <<>>, err |-> NoError,
               ret |-> <<>>]

NextRec ==
    \/ \E table \in AllNames, data \in RecBatches :
          InBounds(data, RecMaxIds, RecMaxRecords) /\ insert(table, data)
    \/ \E table \in Names, where \in RecWheres : find(table, where, <<>>)
    \/ \E table \in Names, where \in RecWheres : delete(table, where)
    \/ \E table \in Names, where \in RecWheres : deleteFirst(table, where)
    \/ \E table \in Names, where \in RecWheres, updates \in RecUpdates :
          update(table, where, updates)

SpecRec == InitRec /\ [][NextRec]_vars

(***************************************************************************)
(* SpecQuery: find, findFirst and count with query options, on a table the *)
(* file already holds.                                                     *)
(***************************************************************************)
QueryRecords == { [a |-> 1], [a |-> 2], [_id |-> 1, a |-> 2, b |-> 1], [b |-> 2] }
QueryFiles ==
    { [exists |-> TRUE, doc |-> [t \in {"t"} |-> rows]] :
        rows \in SeqsUpTo(QueryRecords, MaxRows) }
QueryWheres == { NoWhere, [a |-> Ge(2)] }

Sorts == { <<<<"a", 1>>>>, <<<<"a", -1>>>>, <<<<"b", 1>>, <<"a", -1>>>> }
Skips == { 1, 2 }
Limits == { 0, 1, 2 }
Projections == { <<"a">>, <<"b", "a">> }

\* an options object: each of the four options given or not
Queries ==
    UNION { { [k \in keys |->
                 CASE k = "sort" -> s
                   [] k = "skip" -> n
                   [] k = "limit" -> m
                   [] OTHER -> p] :
              s \in Sorts, n \in Skips, m \in Limits, p \in Projections } :
            keys \in SUBSET {"sort", "skip", "limit", "projection"} }
OptionalQueries == {<<>>} \cup {<<q>> : q \in Queries}
\* the options findFirst and count are called with
FewQueries ==
    { <<>>, <<[limit |-> 0]>>, <<[skip |-> 1]>>, <<[sort |-> <<<<"a", -1>>>>]>>,
      <<[sort |-> <<<<"a", 1>>>>, skip |-> 1, limit |-> 1, projection |-> <<"a">>]>> }

InitQuery ==
    /\ cacheOn \in BOOLEAN
    /\ disk \in QueryFiles
    /\ alive = TRUE
    /\ cache = IF cacheOn THEN disk.doc ELSE EmptyDoc
    /\ nextId = 1
    /\ peer = NoPeer
    /\ last = [op |-> "constructor", table |-> "", arg |-> <<>>, err |-> NoError,
               ret |-> <<>>]

\* A query changes nothing but `last`, so what a call returns does not depend
\* on the calls before it: one call per behaviour reaches every result.
FirstCall == last.op = "constructor"

NextQuery ==
    \/ \E where \in QueryWheres, query \in OptionalQueries :
          FirstCall /\ find("t", where, query)
    \/ \E table \in Names, where \in QueryWheres, query \in FewQueries :
          FirstCall /\ findFirst(table, where, query)
    \/ \E table \in Names, where \in QueryWheres, query \in FewQueries :
          FirstCall /\ count(table, where, query)

SpecQuery == InitQuery /\ [][NextQuery]_vars

(***************************************************************************)
(* SpecPeers: two clients with cache on one file.  The first runs every    *)
(* operation; the second is constructed at some point, inserts and flushes.*)
(***************************************************************************)
PeerFiles == { [exists |-> TRUE, doc |-> [t \in {"t"} |-> <<>>]] }
PeerLists == { <<"u">> }
PeerWheres == { [a |-> Eq(1)] }

\* the model lets the second client insert while identifiers and records stay in bounds
PeerInBounds(data, maxIds, maxRecords) ==
    /\ nextId + Len(data) - 1 <= maxIds
    /\ CountRecords(peer.cache, DOMAIN peer.cache) + Len(data) <= maxRecords

InitPeers ==
    /\ cacheOn = TRUE
    /\ disk \in PeerFiles
    /\ alive = TRUE
    /\ cache = disk.doc
    /\ nextId = 1
    /\ peer = NoPeer
    /\ last = [op |-> "constructor", table |-> "", arg |-> <<>>, err |-> NoError,
               ret |-> <<>>]

NextPeers ==
    \/ \E tables \in PeerLists : create(tables)
    \/ \E tables \in PeerLists : drop(tables)
    \/ \E tables \in PeerLists : clear(tables)
    \/ \E table \in Names, data \in StoreBatches :
          InBounds(data, MaxIds, MaxRecords) /\ insert(table, data)
    \/ \E table \in Names, where \in PeerWheres : find(table, where, <<>>)
    \/ \E table \in Names, where \in PeerWheres : findFirst(table, where, <<>>)
    \/ \E table \in Names, where \in PeerWheres : count(table, where, <<>>)
    \/ \E table \in Names, where \in PeerWheres : delete(table, where)
    \/ \E table \in Names, where \in PeerWheres : deleteFirst(table, where)
    \/ \E table \in Names, where \in PeerWheres, updates \in StoreUpdates :
          update(table, where, updates)
    \/ \E table \in OptionalNames : size(table)
    \/ flush
    \/ peerOpen
    \/ \E table \in Names, data \in StoreBatches :
          PeerInBounds(data, MaxIds, MaxRecords) /\ peerInsert(table, data)
    \/ peerFlush

SpecPeers == InitPeers /\ [][NextPeers]_vars

(***************************************************************************)
(* SpecRaise: a table in which some records lack a field, and a predicate  *)
(* that reads a member of that field.                                      *)
(***************************************************************************)
RaiseRecords == { [_id |-> 1, a |-> 1], [_id |-> 2], [_id |-> 3, a |-> 1] }
RaiseFiles ==
    { [exists |-> TRUE, doc |-> [t \in {"t"} |-> rows]] :
        rows \in { r \in SeqsUpTo(RaiseRecords, MaxStored) :
                     \A i, j \in 1..Len(r) : i # j => r[i] # r[j] } }
RaiseWheres == { [a |-> Inc(1)], [a |-> Eq(1)] }
RaiseUpdates == { [b |-> 2] }

InitRaise ==
    /\ cacheOn \in BOOLEAN
    /\ disk \in RaiseFiles
    /\ alive = TRUE
    /\ cache = IF cacheOn THEN disk.doc ELSE EmptyDoc
    /\ nextId = 4
    /\ peer = NoPeer
    /\ last = [op |-> "constructor", table |-> "", arg |-> <<>>, err |-> NoError,
               ret |-> <<>>]

NextRaise ==
    \/ \E where \in RaiseWheres : find("t", where, <<>>)
    \/ \E where \in RaiseWheres : delete("t", where)
    \/ \E where \in RaiseWheres : deleteFirst("t", where)
    \/ \E where \in RaiseWheres, updates \in RaiseUpdates :
          update("t", where, updates)
    \/ flush
    \/ restart

SpecRaise == InitRaise /\ [][NextRaise]_vars

(***************************************************************************)
(* Properties.                                                             *)
(***************************************************************************)
Mutations == {"create", "insert", "update", "delete", "deleteFirst", "drop", "clear"}

\* C1: with caching on, when a mutating call is followed by one flush tick
\* with no call in between, the document on disk equals the mirror after the
\* tick; this is claimed for every mutation, a drop of the last table included.
C1_FlushAfterMutationReachesDisk ==
    [][(/\ cacheOn
        /\ last.op \in Mutations /\ last.err = NoError
        /\ last'.op = "flush" /\ last'.err = NoError)
       => (disk'.exists /\ disk'.doc = cache')]_vars

\* C1, where the mirror still holds a table after the call: the tick writes it
C1_FlushOfTablesReachesDisk ==
    [][(/\ cacheOn
        /\ last.op \in Mutations /\ last.err = NoError
        /\ last'.op = "flush" /\ last'.err = NoError
        /\ DOMAIN cache # {})
       => (disk'.exists /\ disk'.doc = cache')]_vars

\* what the mirror shows right after the mutating call that `call` records
MirrorShows(call, before, after) ==
    CASE call.op = "create" ->
            \A i \in 1..Len(call.arg) : In(call.arg[i], after)
      [] call.op = "drop" ->
            /\ after = call.ret
            /\ \A i \in 1..Len(call.arg) : call.arg[i] \notin DOMAIN after
      [] call.op = "clear" ->
            \A i \in 1..Len(call.arg) :
                call.arg[i] \in DOMAIN before => after[call.arg[i]] = <<>>
      [] call.op = "insert" ->
            /\ after[call.table] = call.ret
            /\ Len(call.ret) = Len(before[call.table]) + Len(call.arg.data)
      [] call.op = "update" -> after[call.table] = call.ret
      [] OTHER ->
            Len(after[call.table]) = Len(before[call.table]) - call.ret

\* C2: with caching on, a mutating call changes the mirror at once and leaves
\* the file alone: the file changes only in a flush tick, and a client
\* constructed after a crash holds exactly what the file held.
C2_MutationsStayInMirror ==
    [][cacheOn =>
        /\ (disk' # disk) => (last'.op = "flush")
        /\ (last'.op \in Mutations /\ last'.err = NoError)
              => MirrorShows(last', cache, cache')
        /\ (last'.op = "constructor" /\ last'.err = NoError)
              => (cache' = disk.doc /\ disk' = disk)]_vars

\* C2: a call has changed the mirror and the file still holds the old document
C2_Witness ==
    /\ cacheOn /\ alive
    /\ last.op = "insert" /\ last.err = NoError
    /\ Len(cache[last.table]) > 0
    /\ last.table \in DOMAIN disk.doc /\ disk.doc[last.table] = <<>>

\* C3: a flush that fails with an I/O error does not end the process: the
\* mirror is kept and later ticks still run.
C3_FlushFailureKeepsRunning ==
    (last.op = "flush" /\ last.err = WriteError) => alive

\* C4: the `_id` stored for every record insert adds is the identifier that
\* was generated for it, whatever `_id` the caller put in the input record.
C4_InsertStoresFreshIds ==
    (last.op = "insert" /\ last.err = NoError) =>
        LET rows == Read[last.table]
            n == Len(last.arg.data)
        IN  \A i \in 1..n :
                Get(rows[Len(rows) - n + i], "_id") = last.arg.from + i - 1

\* C5: update leaves the `_id` of every record of the table as it was,
\* whatever keys the partial record holds.
C5_UpdateKeepsIds ==
    [][(last'.op = "update" /\ last'.err = NoError) =>
        LET before == Read[last'.table]
            after == Read'[last'.table]
        IN  /\ Len(after) = Len(before)
            /\ \A i \in 1..Len(before) :
                   Get(after[i], "_id") = Get(before[i], "_id")]_vars

\* C6: no two records of one table share an `_id`.
C6_IdsUnique ==
    \A t \in DOMAIN Read :
        \A i, j \in 1..Len(Read[t]) :
            i # j => Get(Read[t][i], "_id") # Get(Read[t][j], "_id")

\* the table name a call was given, as an optional argument
CalledOn(call) == IF call.op = "size" THEN call.arg ELSE <<call.table>>

\* C7: insert, find, findFirst, count, update, delete, deleteFirst and
\* size(table), called with a table name the document does not hold, throw
\* "Table not found" and leave the mirror and the file unchanged.
C7_MissingTableThrows ==
    [][(/\ last'.op \in {"insert", "find", "findFirst", "count", "update",
                         "delete", "deleteFirst", "size"}
        /\ ~ReadThrows
        /\ CalledOn(last') # <<>>
        /\ CalledOn(last')[1] \notin DOMAIN Read)
       => (last'.err = TableNotFound /\ disk' = disk /\ cache' = cache)]_vars

\* C7, for every name but the empty string, which size takes for "no table",
\* and the inherited names, which pass the `in` test
C7_NamedTableThrows ==
    [][(/\ last'.op \in {"insert", "find", "findFirst", "count", "update",
                         "delete", "deleteFirst", "size"}
        /\ ~ReadThrows
        /\ CalledOn(last') # <<>>
        /\ CalledOn(last')[1] # ""
        /\ ~In(CalledOn(last')[1], Read))
       => (last'.err = TableNotFound /\ disk' = disk /\ cache' = cache)]_vars

\* C8, as claimed: on a client without cache whose file does not exist, a
\* write operation creates the file instead of failing.
C8_FirstWriteCreatesFile ==
    [][(~cacheOn /\ ~disk.exists /\ last'.op \in Mutations)
       => (disk'.exists /\ last'.err = NoError)]_vars

\* C8, amended: while the file does not exist no call creates it: every
\* operation, create included, throws "Unable to read the file.", and so does
\* the constructor of a client with cache.
C8_MissingFileStaysMissing ==
    [][(~disk.exists) =>
        /\ ~disk'.exists
        /\ \/ last'.err = ReadError
           \/ last'.op = "constructor" /\ ~cacheOn]_vars

\* C8: create was called while the file did not exist
C8_Witness ==
    ~disk.exists /\ ~cacheOn /\ last.op = "create" /\ last.err = ReadError

\* C9: a find with limit M >= 0 returns at most M records.
C9_LimitBoundsResult ==
    (/\ last.op = "find" /\ last.err = NoError
     /\ last.arg.query # <<>>
     /\ "limit" \in DOMAIN last.arg.query[1]
     /\ last.arg.query[1].limit >= 0)
    => Len(last.ret) <= last.arg.query[1].limit

\* the four stages as the specification words them
Ordered(rows, sort) ==
    \A i, j \in 1..Len(rows) : i < j => Compare(rows[i], rows[j], sort) <= 0
SortedAsClaimed(rows, options) ==
    IF "sort" \notin DOMAIN options THEN {rows}
    ELSE IF Consistent(rows, options.sort)
         THEN {p \in Orderings(rows) : Ordered(p, options.sort)}
         ELSE Orderings(rows)
SkippedAsClaimed(rows, options) ==
    IF "skip" \in DOMAIN options
    THEN SubSeq(rows, options.skip + 1, Len(rows))
    ELSE rows
LimitedAsClaimed(rows, options) ==
    IF "limit" \in DOMAIN options
    THEN SubSeq(rows, 1, IF options.limit < Len(rows) THEN options.limit ELSE Len(rows))
    ELSE rows
ProjectedAsClaimed(rows, options) ==
    IF "projection" \in DOMAIN options
    THEN [i \in 1..Len(rows) |->
            [k \in {options.projection[n] : n \in 1..Len(options.projection)} |->
                Get(rows[i], k)]]
    ELSE rows

\* C10: with query options, find returns the matching records sorted, then
\* without the first `skip`, then cut to the first `limit`, then projected.
C10_PipelineOrder ==
    (last.op = "find" /\ last.err = NoError /\ last.arg.query # <<>>) =>
        LET options == last.arg.query[1]
            matching == Filter(Read[last.table], last.arg.where)
        IN  \E sorted \in SortedAsClaimed(matching, options) :
                last.ret = ProjectedAsClaimed(
                               LimitedAsClaimed(
                                   SkippedAsClaimed(sorted, options), options),
                               options)

\* C10, for every limit but 0, the value find takes for "no limit"
C10_PipelineOrderButLimitZero ==
    (/\ last.op = "find" /\ last.err = NoError /\ last.arg.query # <<>>
     /\ ("limit" \in DOMAIN last.arg.query[1] => last.arg.query[1].limit # 0))
    => C10_PipelineOrder

\* C11: update(table, where, partial) changes only the fields named in
\* `partial`, and only on the records that match `where`: every other field of
\* a matching record, every record that does not match, the order and the
\* number of the records, and every other table stay as they were.
C11_UpdateIsolation ==
    [][(last'.op = "update" /\ last'.err = NoError) =>
        LET before == Read
            after == Read'
            table == last'.table
            where == last'.arg.where
            updates == last'.arg.updates
        IN  /\ DOMAIN after = DOMAIN before
            /\ \A t \in DOMAIN before \ {table} : after[t] = before[t]
            /\ Len(after[table]) = Len(before[table])
            /\ \A i \in 1..Len(before[table]) :
                   LET old == before[table][i]
                       new == after[table][i]
                   IN  IF Matches(where, old)
                       THEN \A k \in DOMAIN old \cup DOMAIN new \cup DOMAIN updates :
                               Get(new, k) = IF k \in DOMAIN updates
                                             THEN updates[k]
                                             ELSE Get(old, k)
                       ELSE new = old]_vars

\* C11: an update with a predicate has run on a table of two records while
\* another table exists
C11_Witness ==
    /\ last.op = "update" /\ last.err = NoError
    /\ last.arg.where = [a |-> Eq(1)]
    /\ Len(Read[last.table]) = 2
    /\ \E i \in 1..2 : Get(Read[last.table][i], "a") = 2
    /\ DOMAIN Read \ {last.table} # {}

\* the positions of the records of rows that match where
Matching(rows, where) == {i \in 1..Len(rows) : Matches(where, rows[i])}

\* rows without the records at the positions in gone, the others in their order
Without(rows, gone) ==
    LET kept == (1..Len(rows)) \ gone
        nth(j) == CHOOSE i \in kept : Cardinality({k \in kept : k <= i}) = j
    IN  [j \in 1..Cardinality(kept) |-> rows[nth(j)]]

\* C12: delete(table, where) removes exactly the records that satisfy every
\* predicate of `where`, keeps the other records in their relative order, and
\* returns the number of records removed (length before minus length after).
C12_DeleteRemovesMatches ==
    [][(last'.op = "delete" /\ last'.err = NoError) =>
        LET before == Read[last'.table]
            after == Read'[last'.table]
            hits == Matching(before, last'.arg)
        IN  /\ after = Without(before, hits)
            /\ last'.ret = Cardinality(hits)
            /\ last'.ret = Len(before) - Len(after)]_vars

\* C12: a delete with a predicate has removed a record and kept two
C12_Witness ==
    /\ last.op = "delete" /\ last.err = NoError
    /\ last.arg = [a |-> Eq(1)]
    /\ last.ret >= 1
    /\ Len(Read[last.table]) = 2

\* C13: deleteFirst(table, where) removes exactly one record, the first in
\* table order that matches `where`, and returns 1; when no record matches it
\* returns 0 and leaves the table unchanged.  Later matches are kept.
C13_DeleteFirstRemovesFirstMatch ==
    [][(last'.op = "deleteFirst" /\ last'.err = NoError) =>
        LET before == Read[last'.table]
            after == Read'[last'.table]
            hits == Matching(before, last'.arg)
        IN  IF hits = {}
            THEN last'.ret = 0 /\ after = before /\ disk' = disk /\ cache' = cache
            ELSE LET first == CHOOSE i \in hits : \A j \in hits : i <= j
                 IN  last'.ret = 1 /\ after = Without(before, {first})]_vars

\* C13: a deleteFirst has removed a record and a later match is still stored
C13_Witness ==
    /\ last.op = "deleteFirst" /\ last.err = NoError /\ last.ret = 1
    /\ last.arg = [a |-> Eq(1)]
    /\ Matching(Read[last.table], last.arg) # {}

\* the rule as it is stated: every entry that is a predicate returns true on
\* the record's value at its field; the other entries ask nothing
Satisfies(where, item) ==
    \A key \in DOMAIN where :
        where[key].fn => Call(where[key], Get(item, key))
Satisfying(rows, where) == {i \in 1..Len(rows) : Satisfies(where, rows[i])}

\* C14: a record matches `where` iff every entry of `where` whose value is a
\* callable predicate returns true on the record's value at that field; an
\* entry that is not callable passes, so an empty `where` (or one with only
\* such entries) matches every record.  find, update, delete and deleteFirst
\* all select their records by this rule.
C14_MatchRule ==
    [][(/\ last'.op \in {"find", "update", "delete", "deleteFirst"}
        /\ last'.err = NoError) =>
        LET before == Read[last'.table]
            after == Read'[last'.table]
            where == IF last'.op \in {"find", "update"}
                     THEN last'.arg.where ELSE last'.arg
            all == 1..Len(before)
            hits == Satisfying(before, where)
        IN  /\ (\A key \in DOMAIN where : ~where[key].fn) => hits = all
            /\ CASE last'.op = "find" -> last'.ret = Without(before, all \ hits)
                 [] last'.op = "delete" -> after = Without(before, hits)
                 [] last'.op = "deleteFirst" ->
                        /\ last'.ret = IF hits = {} THEN 0 ELSE 1
                        /\ \A i \in all : (\A j \in hits : i < j) => after[i] = before[i]
                 [] OTHER ->
                        \A i \in all :
                            IF i \in hits
                            THEN \A k \in DOMAIN last'.arg.updates :
                                    Get(after[i], k) = last'.arg.updates[k]
                            ELSE after[i] = before[i]]_vars

\* C14: a `where` whose only entry is not a function has matched a record
C14_Witness ==
    /\ last.op = "delete" /\ last.err = NoError
    /\ last.arg = [a |-> NotCallable]
    /\ last.ret >= 1

\* C15: with a projection list P, every record find returns holds only keys
\* of P, each with the value the source record had at that key; keys outside
\* P, `_id` included, do not appear, and the stored records are not changed.
C15_ProjectionCompleteness ==
    [][(/\ last'.op = "find" /\ last'.err = NoError
        /\ last'.arg.query # <<>>
        /\ "projection" \in DOMAIN last'.arg.query[1]) =>
        LET options == last'.arg.query[1]
            P == {options.projection[n] : n \in 1..Len(options.projection)}
            others == [k \in DOMAIN options \ {"projection"} |-> options[k]]
            matching == Filter(Read[last'.table], last'.arg.where)
        IN  /\ disk' = disk /\ cache' = cache
            /\ \E source \in processQuery(matching, others) :
                   /\ Len(last'.ret) = Len(source)
                   /\ \A i \in 1..Len(source) :
                          /\ DOMAIN last'.ret[i] \subseteq P
                          /\ \A k \in DOMAIN last'.ret[i] :
                                 last'.ret[i][k] = Get(source[i], k)]_vars

\* C15: find has returned, projected on `a`, every record of a table that
\* stores a record with an `_id`
C15_Witness ==
    /\ last.op = "find" /\ last.err = NoError
    /\ last.arg.query # <<>>
    /\ "projection" \in DOMAIN last.arg.query[1]
    /\ last.arg.query[1].projection = <<"a">>
    /\ Len(last.ret) >= 1
    /\ Len(last.ret) = Len(Read[last.table])
    /\ \E i \in 1..Len(Read[last.table]) : "_id" \in DOMAIN Read[last.table][i]

\* the first field of the sort mapping on which a and b differ, with its
\* direction; <<>> when they differ on none
RECURSIVE FirstDifference(_, _, _)
FirstDifference(a, b, sort) ==
    IF sort = <<>> THEN <<>>
    ELSE IF Get(a, Head(sort)[1]) # Get(b, Head(sort)[1]) THEN Head(sort)
    ELSE FirstDifference(a, b, Tail(sort))

\* a may stand before b: the first field they differ on puts a first.  Where
\* one of the two lacks that field no order of the pair is asked for.
MayPrecede(a, b, sort) ==
    LET d == FirstDifference(a, b, sort)
    IN  \/ d = <<>>
        \/ Get(a, d[1]) = Undef \/ Get(b, d[1]) = Undef
        \/ IF d[2] = 1 THEN Get(a, d[1]) < Get(b, d[1])
                       ELSE Get(a, d[1]) > Get(b, d[1])

\* a find whose options hold at most a sort
SortOnly(call) ==
    /\ call.op = "find" /\ call.err = NoError
    /\ call.arg.query # <<>>
    /\ DOMAIN call.arg.query[1] \subseteq {"sort"}

\* C16: sorting compares two records field by field in the order the sort
\* mapping lists the fields: the first field on which the two differ decides
\* (1 ascending, -1 descending), later fields count only on ties, and with no
\* sort the result keeps table order.
C16_SortOrder ==
    SortOnly(last) =>
        LET options == last.arg.query[1]
            matching == Filter(Read[last.table], last.arg.where)
        IN  IF "sort" \in DOMAIN options
            THEN /\ last.ret \in Orderings(matching)
                 /\ \A i, j \in 1..Len(last.ret) :
                        i < j => MayPrecede(last.ret[i], last.ret[j], options.sort)
            ELSE last.ret = matching

\* C16, where every record that is sorted holds every field of the mapping
C16_SortOrderOfPresentFields ==
    (/\ SortOnly(last)
     /\ \A i \in 1..Len(last.ret) :
            \A key \in DOMAIN last.arg.query[1] :
                \A n \in 1..Len(last.arg.query[1][key]) :
                    Get(last.ret[i], last.arg.query[1][key][n][1]) # Undef)
    => C16_SortOrder

\* C17: for the same table, `where` and query options, findFirst returns the
\* first element of find's result (null when it is empty) and count returns
\* the length of find's result, taken after sort, skip, limit and projection
\* when options are given.
C17_FirstAndCountFollowFind ==
    (last.op \in {"findFirst", "count"} /\ last.err = NoError) =>
        \E found \in FindResults(Read, last.table, last.arg.where, last.arg.query) :
            last.ret = IF last.op = "count" THEN Len(found)
                       ELSE IF found = <<>> THEN <<>>
                       ELSE <<found[1]>>

\* C17: a count with options has returned fewer than the matching records
C17_Witness ==
    /\ last.op = "count" /\ last.err = NoError
    /\ last.arg.query = <<[skip |-> 1]>>
    /\ last.ret >= 1
    /\ last.ret < Len(Filter(Read[last.table], last.arg.where))

\* the names a call of create, drop or clear was given
Named(tables) == {tables[i] : i \in 1..Len(tables)}

\* what create is claimed to do to the document
CreateEffect(before, after, tables) ==
    /\ DOMAIN after = DOMAIN before \cup Named(tables)
    /\ \A t \in DOMAIN before : after[t] = before[t]
    /\ \A t \in Named(tables) \ DOMAIN before : after[t] = <<>>
    /\ CreateAll(after, tables) = after

\* C18: create(tables...) adds each name that is not yet a table, with no
\* records, and is idempotent: the records of a table that exists are
\* untouched, and the same create once more gives the same document.
C18_CreateAddsMissingTables ==
    [][(last'.op = "create" /\ last'.err = NoError) =>
        /\ CreateEffect(Read, Read', last'.arg)
        /\ (last.op = "create" /\ last.err = NoError /\ last.arg = last'.arg)
              => Read' = Read]_vars

\* C18, for the names the document does not inherit
C18_CreateAddsOrdinaryTables ==
    [][(/\ last'.op = "create" /\ last'.err = NoError
        /\ Named(last'.arg) \cap Inherited = {}) =>
        /\ CreateEffect(Read, Read', last'.arg)
        /\ (last.op = "create" /\ last.err = NoError /\ last.arg = last'.arg)
              => Read' = Read]_vars

\* C19: drop(tables...) removes each named table, key and records, from the
\* document and leaves every other table unchanged; dropping a table that is
\* absent or already dropped changes nothing and raises no error.
C19_DropRemovesTables ==
    [][(last'.op = "drop" /\ ~ReadThrows) =>
        /\ last'.err = NoError
        /\ DOMAIN Read' = DOMAIN Read \ Named(last'.arg)
        /\ \A t \in DOMAIN Read' : Read'[t] = Read[t]
        /\ last'.ret = Read'
        /\ (Named(last'.arg) \cap DOMAIN Read = {}) => Read' = Read]_vars

\* C19: drop('t') has returned, t is no table, and u still holds its record
C19_Witness ==
    /\ last.op = "drop" /\ last.err = NoError /\ last.arg = <<"t">>
    /\ ~ReadThrows
    /\ "t" \notin DOMAIN Read
    /\ "u" \in DOMAIN Read /\ Len(Read["u"]) >= 1

\* what clear is claimed to do to the document
ClearEffect(before, after, tables) ==
    /\ DOMAIN after = DOMAIN before
    /\ \A t \in DOMAIN before :
           after[t] = IF t \in Named(tables) THEN <<>> ELSE before[t]
    /\ ClearAll(after, tables) = after

\* C20: clear(tables...) leaves each named table that exists present with no
\* records, leaves the set of table names and every other table unchanged,
\* and is idempotent: a second clear gives the same document as the first.
C20_ClearEmptiesTables ==
    [][(last'.op = "clear" /\ last'.err = NoError) =>
        /\ ClearEffect(Read, Read', last'.arg)
        /\ (last.op = "clear" /\ last.err = NoError /\ last.arg = last'.arg)
              => Read' = Read]_vars

\* C20, for the names the document does not inherit
C20_ClearEmptiesOrdinaryTables ==
    [][(/\ last'.op = "clear" /\ last'.err = NoError
        /\ Named(last'.arg) \cap Inherited = {}) =>
        /\ ClearEffect(Read, Read', last'.arg)
        /\ (last.op = "clear" /\ last.err = NoError /\ last.arg = last'.arg)
              => Read' = Read]_vars

\* the calls that only read
ReadCalls == {"find", "findFirst", "count", "size"}

\* what a query returns when it is answered from the document doc
Answers(call, doc) ==
    CASE call.op = "size" ->
            { IF call.arg = <<>> \/ call.arg[1] = "" THEN Cardinality(DOMAIN doc)
              ELSE IF call.arg[1] \in DOMAIN doc THEN Len(doc[call.arg[1]])
              ELSE 1 }
      [] call.op = "find" ->
            FindResults(doc, call.table, call.arg.where, call.arg.query)
      [] call.op = "findFirst" ->
            { IF f = <<>> THEN <<>> ELSE <<f[1]>> :
                f \in FindResults(doc, call.table, call.arg.where, call.arg.query) }
      [] OTHER ->
            { Len(f) :
                f \in FindResults(doc, call.table, call.arg.where, call.arg.query) }

\* the document a mutating call leaves when it has read the document doc
Leaves(call, doc) ==
    CASE call.op = "create" -> CreateAll(doc, call.arg)
      [] call.op = "drop" -> DropAll(doc, call.arg)
      [] call.op = "clear" -> ClearAll(doc, call.arg)
      [] call.op = "insert" ->
            SetTable(doc, call.table,
                     doc[call.table] \o Final(call.arg.data, call.arg.from))
      [] call.op = "update" ->
            SetTable(doc, call.table,
                     UpdateEach(doc[call.table], call.arg.where, call.arg.updates))
      [] call.op = "delete" ->
            SetTable(doc, call.table, FilterNot(doc[call.table], call.arg))
      [] OTHER ->
            IF FindIndex(doc[call.table], call.arg) = 0 THEN doc
            ELSE SetTable(doc, call.table,
                          Splice(doc[call.table], FindIndex(doc[call.table], call.arg)))

\* C21: while caching is on, every read (find, findFirst, count, size and the
\* read step of every mutation) is answered from the mirror alone, and the
\* mirror holds every table of the document when the client is constructed:
\* what a call returns or leaves does not depend on what the file holds at
\* that time, also when someone else has changed the file.
C21_ReadsComeFromMirror ==
    [][(cacheOn /\ last'.op \in ReadCalls \cup Mutations \cup {"constructor"}) =>
        /\ (last'.op # "constructor") => last'.err # ReadError
        /\ (last'.op = "constructor" /\ last'.err = NoError) => cache' = disk.doc
        /\ (last'.op # "constructor" /\ CalledOn(last') # <<>>
               /\ last'.op \notin {"create", "drop", "clear"})
              => ((last'.err = TableNotFound) <=>
                    (CalledOn(last')[1] # "" /\ ~In(CalledOn(last')[1], cache)))
        /\ (last'.op \in ReadCalls /\ last'.err = NoError)
              => (last'.ret \in Answers(last', cache) /\ cache' = cache)
        /\ (last'.op \in Mutations /\ last'.err = NoError)
              => cache' = Leaves(last', cache)]_vars

\* C21: a find has been answered from the mirror while the file holds a
\* record, written by the second client, that the mirror does not hold
C21_Witness ==
    /\ cacheOn
    /\ last.op = "find" /\ last.err = NoError /\ last.table = "t"
    /\ last.ret = cache["t"]
    /\ "t" \in DOMAIN disk.doc
    /\ \E i \in 1..Len(disk.doc["t"]) :
           \A j \in 1..Len(cache["t"]) : cache["t"][j] # disk.doc["t"][i]

\* C22: with caching off, when a mutating call has returned the document on
\* disk is the document the call computed, so a crash right after the call
\* loses nothing and the next read returns the mutated state.
C22_MutationsAreDurable ==
    [][(~cacheOn /\ last'.op \in Mutations /\ last'.err = NoError) =>
        /\ disk'.exists
        /\ disk'.doc = Stringify(Leaves(last', disk.doc))
        /\ ~ReadThrows' /\ Read' = disk'.doc
        /\ (last'.op \in {"insert", "update"})
              => disk'.doc[last'.table] = StringifyRows(last'.ret)]_vars

\* C22: with caching off an insert has returned and the file holds its record
C22_Witness ==
    /\ ~cacheOn
    /\ last.op = "insert" /\ last.err = NoError
    /\ Len(last.ret) >= 1
    /\ disk.exists /\ disk.doc[last.table] = last.ret

\* C23: insert(table, r1..rn) on an existing table appends the n records
\* behind the existing ones in call order, leaves the existing records and
\* every other table unchanged, and returns the table as it is after the
\* call: the old records followed by the new ones.
C23_InsertAppends ==
    [][(last'.op = "insert" /\ last'.err = NoError) =>
        LET before == Read
            after == Read'
            table == last'.table
            data == last'.arg.data
            old == before[table]
        IN  /\ DOMAIN after = DOMAIN before
            /\ \A t \in DOMAIN before \ {table} : after[t] = before[t]
            /\ Len(after[table]) = Len(old) + Len(data)
            /\ SubSeq(after[table], 1, Len(old)) = old
            /\ \A i \in 1..Len(data) :
                   LET new == after[table][Len(old) + i]
                   IN  /\ DOMAIN new = DOMAIN data[i] \cup {"_id"}
                       /\ \A k \in DOMAIN data[i] \ {"_id"} : new[k] = data[i][k]
            /\ last'.ret = after[table]]_vars

\* C23: two different records have been inserted in one call behind a record
\* the table already held
C23_Witness ==
    /\ last.op = "insert" /\ last.err = NoError
    /\ Len(last.arg.data) = 2
    /\ last.arg.data[1] # last.arg.data[2]
    /\ Len(last.ret) = 3
    /\ Read[last.table] = last.ret

\* C24: a flush tick is a one-way full snapshot: when the mirror holds a
\* table the tick overwrites the file with the whole mirror as it is at tick
\* time, and it does not change the mirror; what it writes is always the
\* state at an operation boundary, never a half-applied mutation: the mirror
\* changes only through calls that succeed.
C24_FlushIsFullSnapshot ==
    [][/\ (last'.op = "flush" /\ last'.err = NoError) =>
              /\ cache' = cache
              /\ (DOMAIN cache # {}) =>
                     (disk'.exists /\ disk'.doc = Stringify(cache))
       /\ (cacheOn /\ cache' # cache) => last'.err = NoError]_vars

\* C24, without the clause on half-applied mutations
C24_FlushWritesWholeMirror ==
    [][(last'.op = "flush" /\ last'.err = NoError) =>
          /\ cache' = cache
          /\ (DOMAIN cache # {}) =>
                 (disk'.exists /\ disk'.doc = Stringify(cache))]_vars

\* C26: update is all-or-nothing when it fails: when a predicate throws on
\* some record partway through the table, the error reaches the caller and
\* no record of the mirror or of the file has been changed, with caching on
\* as well as off.
C26_FailedUpdateChangesNothing ==
    [][(last'.op = "update" /\ last'.err # NoError) =>
          (cache' = cache /\ disk' = disk)]_vars

\* C26, with caching off, and for find, delete and deleteFirst either way
C26_FailedCallChangesNothing ==
    [][(/\ last'.op \in {"update", "find", "delete", "deleteFirst"}
        /\ last'.err # NoError
        /\ (last'.op = "update" => ~cacheOn)) =>
          (cache' = cache /\ disk' = disk)]_vars

\* C25: two clients with cache on one file can lose updates.  Nothing locks
\* or reconciles: a tick of either client puts exactly that client's mirror on
\* the file, whatever the file held, and neither mirror ever takes in what
\* the other client wrote; so a mutation one client has made and flushed is
\* gone from the file after the other client's later tick (C25_Witness).
C25_FlushesOverwriteEachOther ==
    [][/\ (last'.op = "peerFlush" /\ last'.ret = TRUE) =>
              (disk'.doc = Stringify(peer.cache) /\ peer' = peer /\ cache' = cache)
       /\ (last'.op = "flush" /\ last'.err = NoError /\ last'.ret = TRUE) =>
              (disk'.doc = Stringify(cache) /\ peer' = peer /\ cache' = cache)
       /\ (peer.open /\ peer' # peer) => last'.op = "peerInsert"
       /\ (cache' # cache) => last'.op \in Mutations]_vars

\* C25: the second client's tick has overwritten a file that held a record
\* the first client inserted and flushed; the record is no longer on disk
C25_Witness ==
    /\ last.op = "peerFlush" /\ last.ret = TRUE
    /\ "t" \in DOMAIN last.arg /\ "t" \in DOMAIN cache /\ "t" \in DOMAIN disk.doc
    /\ \E i \in 1..Len(last.arg["t"]) :
           /\ \E j \in 1..Len(cache["t"]) : cache["t"][j] = last.arg["t"][i]
           /\ \A j \in 1..Len(disk.doc["t"]) : disk.doc["t"][j] # last.arg["t"][i]

====
